---- MODULE Spec2Model ----
(***************************************************************************)
(* Model of the soopchat client session engine (package soopchat):        *)
(* NewClient, Connect, processSocket, the reader goroutine, the keepalive  *)
(* goroutine started by pingpong, the dispatcher startParser, the          *)
(* handshake (executeHandshake / setHandshake) and SendChatMessage.        *)
(*                                                                         *)
(* Threads: "main" runs Connect; "reader" runs Client.reader; "ping" runs  *)
(* the goroutine of Client.pingpong; "user" is a goroutine of the          *)
(* application that calls SendChatMessage.  A socket write and an observer *)
(* callback are not atomic: each has a begin step and an end step, so that *)
(* overlaps between threads are visible in a state.                        *)
(***************************************************************************)
EXTENDS Integers, Sequences, FiniteSets, TLC

\* ---------------------------------------------------------------- bounds
MaxReads == 3      \* ReadMessage calls the reader makes in one run
MaxTicks == 1      \* ticks the keepalive ticker delivers in one run
MaxSends == 1      \* SendChatMessage calls the application makes in one run
QueueCap == 2      \* capacity of the channel c.read (1024 in NewClient)

\* ------------------------------------------------------- service codes
svc_NONE     == "NONE"          \* what getServiceCode yields with its error
svc_KEEPALIVE == "KEEPALIVE"
svc_LOGIN    == "LOGIN"
svc_JOINCH   == "JOINCH"
svc_CHUSER   == "CHUSER"
svc_CHATMESG == "CHATMESG"
svc_SENDBALLOON == "SENDBALLOON"
svc_ADCON_EFFECT == "ADCON_EFFECT"
svc_FOLLOW_ITEM == "FOLLOW_ITEM"
svc_FOLLOW_ITEM_EFFECT == "FOLLOW_ITEM_EFFECT"
svc_SENDADMINNOTICE == "SENDADMINNOTICE"
svc_MISSION  == "MISSION"

\* index of a handshake frame in c.handshake: handshake[svc-1], 0-based,
\* with LOGIN = 1 and JOIN = 2; sequences here are 1-based
HandshakeSlot(svc) == IF svc = svc_LOGIN THEN 1 ELSE 2

Observers ==
    {"onError", "onConnect", "onLogin", "onRawMessage", "onJoinChannel",
     "onUserLists", "onChatMessage", "onBalloon", "onAdballoon",
     "onSubscription", "onAdminNotice", "onMission"}

\* the observer registrations the runs start from
RegChoices ==
    {Observers, Observers \ {"onError"}, Observers \ {"onChatMessage"}}

\* ------------------------------------------------------------- frames
\* An inbound message as the dispatcher sees it: errp = it starts with
\* "error: "; hdr = getServiceCode can decode its header; svc = the code in
\* the header; body = the parser of that code accepts the body.
Frame(svc, body) == [errp |-> FALSE, hdr |-> TRUE, svc |-> svc, body |-> body]

\* fmt.Sprintf("error: %s", err.Error())
ErrorFrame == [errp |-> TRUE, hdr |-> FALSE, svc |-> svc_NONE, body |-> FALSE]

\* the frames the server sends in the runs
ServerFrames ==
    {Frame(svc_LOGIN, TRUE), Frame(svc_CHATMESG, TRUE), Frame(svc_CHATMESG, FALSE)}

\* makeHeader(svc, len(body), 0) followed by makeBuffer(packet)
Encode(svc, packet) == [svc |-> svc, len |-> Len(packet), body |-> packet]

\* an empty slot of c.handshake (a nil []byte)
NilFrame == [svc |-> svc_NONE, len |-> 0, body |-> <<>>]

\* the reader holds no message
NoMsg == [id |-> 0, f |-> ErrorFrame]

VARIABLES
    token,          \* Token given to NewClient: StreamerID, creds, authTicket
    password,       \* the arguments the application gives to Connect
    reg,            \* observers registered (non-nil callback fields)
    channelPassword,
    socketAddress,  \* set by setSocketData
    chatRoom,       \* Token.chatRoom, set by setSocketData
    socket,         \* c.socket: "nil", "open", "closed"
    handshake,      \* c.handshake: the two cached handshake frames
    built,          \* ghost: the frames setHandshakeData built, in order
    queue,          \* c.read: the buffered channel, items [id, f]
    mainPc,         \* position of the thread that runs NewClient and Connect
    hsSvc,          \* argument of the running executeHandshake
    curFrame,       \* id of the frame startParser is handling (0: none)
    pend,           \* observer calls the main thread is about to make, in order
    executing,      \* observer callbacks being executed: [thread, obs]
    newErr,         \* the error NewClient returned ("none": not yet, "nil")
    err,            \* the error Connect is about to return
    ret,            \* what Connect returned ("none": not yet)
    steps,          \* ghost: the steps Connect has taken, in order
    readerPc,       \* "idle", "read", "send"
    inHand,         \* the message the reader is sending on c.read
    produced,       \* ghost: every message the reader produced, in order
    dequeued,       \* ghost: ids the dispatcher received, in order
    pingPc,         \* "idle", "wait", "writing"
    ticker,         \* c.pingpongTimer: "none", "running", "stopped"
    tickC,          \* ticks buffered in the ticker's channel (capacity 1)
    ticks,          \* ghost: ticks delivered so far
    sendPc,         \* the application's SendChatMessage call: "idle", "writing"
    sends,          \* ghost: SendChatMessage calls made so far
    sendRet,        \* results of the SendChatMessage calls, in order
    writing,        \* threads inside socket.WriteMessage
    wire,           \* ghost: the writes made on the socket, in order of return
    events,         \* ghost: observer invocations, in order
    crashed         \* the process died of a panic

vars ==
    <<token, password, reg, channelPassword, socketAddress, chatRoom, socket,
      handshake, built, queue, mainPc, hsSvc, curFrame, pend, executing, newErr,
      err, ret, steps,
      readerPc, inHand, produced, dequeued, pingPc, ticker, tickC, ticks,
      sendPc, sends, sendRet, writing, wire, events, crashed>>

clientVars == <<token, password, reg, newErr>>
dirVars    == <<socketAddress, chatRoom>>
cacheVars  == <<handshake, built>>
retVars    == <<err, ret>>
readerVars == <<readerPc, inHand, produced>>
pingVars   == <<pingPc, tickC, ticks>>
sendVars   == <<sendPc, sends, sendRet>>

\* a Token: Identifier.ID and Identifier.Password are both set or both empty
Token(id, creds, ticket) ==
    [StreamerID |-> id, creds |-> creds, authTicket |-> ticket, Flag |-> "16"]

\* the sessions the runs start from, each a Token and the arguments of
\* Connect: a token without streamer id; an anonymous visitor; a member with
\* credentials and a ticket who joins a channel that has a password
Sessions ==
    { [token |-> Token("", FALSE, ""), password |-> <<>>],
      [token |-> Token("abc", FALSE, ""), password |-> <<>>],
      [token |-> Token("abc", TRUE, "ticket"), password |-> <<"pw">>] }

Init ==
    /\ \E s \in Sessions : token = s.token /\ password = s.password
    /\ reg \in RegChoices
    /\ channelPassword = ""
    /\ socketAddress = ""
    /\ chatRoom = ""
    /\ socket = "nil"
    /\ handshake = <<NilFrame, NilFrame>>
    /\ built = <<>>
    /\ queue = <<>>
    /\ mainPc = "new"
    /\ hsSvc = svc_NONE
    /\ curFrame = 0
    /\ pend = <<>>
    /\ executing = {}
    /\ newErr = "none"
    /\ err = "nil"
    /\ ret = "none"
    /\ steps = <<>>
    /\ readerPc = "idle"
    /\ inHand = NoMsg
    /\ produced = <<>>
    /\ dequeued = <<>>
    /\ pingPc = "idle"
    /\ ticker = "none"
    /\ tickC = 0
    /\ ticks = 0
    /\ sendPc = "idle"
    /\ sends = 0
    /\ sendRet = <<>>
    /\ writing = {}
    /\ wire = <<>>
    /\ events = <<>>
    /\ crashed = FALSE

\* ------------------------------------------------------------ observers
\* `if c.onX != nil { c.onX(arg) }`: the call, when the observer is registered
CallFor(obs, arg, id) ==
    IF obs \in reg THEN <<[obs |-> obs, arg |-> arg, frame |-> id]>> ELSE <<>>

Call(obs, arg) == CallFor(obs, arg, curFrame)

\* the main thread is between two statements: no callback pending or running
MainReady ==
    /\ ~crashed
    /\ pend = <<>>
    /\ \A e \in executing : e.thread # "main"

\* the main thread enters the next pending callback
CallObserver ==
    /\ ~crashed
    /\ pend # <<>>
    /\ \A e \in executing : e.thread # "main"
    /\ executing' = executing \cup {[thread |-> "main", obs |-> Head(pend).obs]}
    /\ events' = Append(events, Head(pend))
    /\ pend' = Tail(pend)
    /\ UNCHANGED <<clientVars, channelPassword, dirVars, socket, cacheVars,
                   queue, mainPc, hsSvc, curFrame, retVars, steps, readerVars,
                   dequeued, pingVars, ticker, sendVars, writing, wire, crashed>>

\* a callback returns to the thread that called it
ObserverReturn ==
    /\ ~crashed
    /\ \E e \in executing : executing' = executing \ {e}
    /\ UNCHANGED <<clientVars, channelPassword, dirVars, socket, cacheVars,
                   queue, mainPc, hsSvc, curFrame, pend, retVars, steps,
                   readerVars, dequeued, pingVars, ticker, sendVars, writing,
                   wire, events, crashed>>

\* ------------------------------------------------------------ NewClient
\* the test of the streamer id is missing
NewClientErrNever(t) == "nil"

\* the error NewClient returns for a token
NewClientErr(t) ==
    IF t.StreamerID = "" THEN "StreamerID is missing from token" ELSE "nil"

\* NewClient(token): an empty Client and the error, or the Client
NewClient ==
    /\ ~crashed
    /\ mainPc = "new"
    /\ newErr' = NewClientErr(token)
    /\ mainPc' = IF NewClientErr(token) # "nil" THEN "noclient" ELSE "connect"
    /\ UNCHANGED <<token, password, reg, channelPassword, dirVars, socket,
                   cacheVars, queue, hsSvc, curFrame, pend, executing, retVars, steps,
                   readerVars, dequeued, pingVars, ticker, sendVars, writing,
                   wire, events, crashed>>

\* -------------------------------------------------------------- Connect
\* Connect, up to the test of the credentials
Connect ==
    /\ MainReady
    /\ mainPc = "connect"
    /\ channelPassword' =
          IF Len(password) > 0 THEN password[1] ELSE channelPassword
    /\ mainPc' = IF token.creds THEN "login" ELSE "directory"
    /\ UNCHANGED <<clientVars, dirVars, socket, cacheVars, queue, hsSvc,
                   curFrame, pend, executing, retVars, steps, readerVars,
                   dequeued, pingVars, ticker, sendVars, writing, wire, events,
                   crashed>>

\* what apiService.login answers
LoginResults == {"nil", "transport error", "login failed"}

\* the identity login and the reports of its result
Login ==
    /\ MainReady
    /\ mainPc = "login"
    /\ \E r \in LoginResults :
          /\ steps' = Append(steps, [step |-> "login", result |-> r])
          /\ IF r # "nil"
             THEN /\ pend' = Call("onLogin", "false") \o Call("onError", r)
                  /\ err' = r
                  /\ mainPc' = "return"
             ELSE /\ pend' = Call("onLogin", "true")
                  /\ err' = err
                  /\ mainPc' = "directory"
    /\ UNCHANGED <<clientVars, channelPassword, dirVars, socket, cacheVars,
                   queue, hsSvc, curFrame, executing, ret, readerVars, dequeued,
                   pingVars, ticker, sendVars, writing, wire, events, crashed>>

\* what the directory answers: a transport failure, or CHANNEL.RESULT
DirectoryResults == {"transport error", "RESULT=-6", "RESULT=1"}

\* the case of RESULT = -6 is missing
setSocketDataErrNoCase(r) ==
    IF r = "transport error" THEN "transport error" ELSE "nil"

\* the error apiService.setSocketData returns for an answer of the directory
setSocketDataErr(r) ==
    CASE r = "transport error" -> "transport error"
      [] r = "RESULT=-6" -> "login required"
      [] OTHER -> "nil"

\* apiService.setSocketData and the report of its error
SetSocketData ==
    /\ MainReady
    /\ mainPc = "directory"
    /\ \E r \in DirectoryResults :
          /\ steps' = Append(steps, [step |-> "directory", result |-> r])
          /\ IF setSocketDataErr(r) # "nil"
             THEN /\ pend' = Call("onError", setSocketDataErr(r))
                  /\ err' = setSocketDataErr(r)
                  /\ mainPc' = "return"
                  /\ UNCHANGED dirVars
             ELSE /\ socketAddress' = "wss://domain:port/Websocket"
                  /\ chatRoom' = "chatno"
                  /\ pend' = pend
                  /\ err' = err
                  /\ mainPc' = "dial"
    /\ UNCHANGED <<clientVars, channelPassword, socket, cacheVars, queue, hsSvc,
                   curFrame, executing, ret, readerVars, dequeued, pingVars,
                   ticker, sendVars, writing, wire, events, crashed>>

\* createWebsocket and the report of its error
CreateWebsocket ==
    /\ MainReady
    /\ mainPc = "dial"
    /\ IF socket # "nil"
       THEN /\ mainPc' = "processSocket"
            /\ UNCHANGED <<socket, pend, err, steps>>
       ELSE \E r \in {"nil", "dial error"} :
                  /\ steps' = Append(steps, [step |-> "dial", result |-> r])
                  /\ IF r = "nil"
                     THEN /\ socket' = "open"
                          /\ mainPc' = "processSocket"
                          /\ UNCHANGED <<pend, err>>
                     ELSE /\ socket' = "nil"
                          /\ pend' = Call("onError", r)
                          /\ err' = r
                          /\ mainPc' = "return"
    /\ UNCHANGED <<clientVars, channelPassword, dirVars, cacheVars, queue, hsSvc,
                   curFrame, executing, ret, readerVars, dequeued, pingVars,
                   ticker, sendVars, writing, wire, events, crashed>>

\* processSocket up to executeHandshake(svc_LOGIN): the reader goroutine and
\* the keepalive goroutine are started
ProcessSocketStart ==
    /\ MainReady
    /\ mainPc = "processSocket"
    /\ readerPc' = "read"
    /\ ticker' = "running"
    /\ pingPc' = "wait"
    /\ hsSvc' = svc_LOGIN
    /\ mainPc' = "handshake"
    /\ UNCHANGED <<clientVars, channelPassword, dirVars, socket, cacheVars,
                   queue, curFrame, pend, executing, retVars, steps, inHand,
                   produced, dequeued, tickC, ticks, sendVars, writing, wire,
                   events, crashed>>

\* ------------------------------------------------------------ handshake
\* setLoginHandshke: the LOGIN frame
LoginHandshake ==
    Encode(svc_LOGIN, <<"\f", token.authTicket, "\f", "\f", token.Flag, "\f">>)

\* setLogHandshake(defaultLog()) followed by setInfoHandshake(defaultInfo(pw)):
\* a field with the zero value is left out
InfoPacket(pw) == <<"log">> \o (IF pw = "" THEN <<>> ELSE <<"pwd", pw>>)

\* Token.fanTicket: nothing assigns it
fanTicket == ""

\* setJoinHandshake: the JOIN frame
JoinHandshake ==
    Encode(svc_JOINCH,
           <<"\f", chatRoom, "\f", "\f", fanTicket, "0", "\f", "", "\f",
             InfoPacket(channelPassword), "\f">>)

\* the switch of executeHandshake: the frame it stores in c.handshake[svc-1]
BuildHandshake(svc) == IF svc = svc_LOGIN THEN LoginHandshake ELSE JoinHandshake

\* what socket.WriteMessage can answer: a closed socket refuses every write
WriteOutcomes == IF socket = "open" THEN {"nil", "write error"} ELSE {"write error"}

\* the success is reported for the LOGIN frame instead of the JOIN frame
SetHandshakeCallsOnLogin(svc, e) ==
    IF e # "nil"
    THEN Call("onConnect", "false") \o Call("onError", e)
    ELSE IF svc = svc_LOGIN THEN Call("onConnect", "true") ELSE <<>>

\* a failed write is reported to the error observer only
SetHandshakeCallsNoFalse(svc, e) ==
    IF e # "nil"
    THEN Call("onError", e)
    ELSE IF svc = svc_JOINCH THEN Call("onConnect", "true") ELSE <<>>

\* setHandshake after WriteMessage returned e
SetHandshakeCalls(svc, e) ==
    IF e # "nil"
    THEN Call("onConnect", "false") \o Call("onError", e)
    ELSE IF svc = svc_JOINCH THEN Call("onConnect", "true") ELSE <<>>

\* executeHandshake after its setHandshake returned e
ExecuteHandshakeCalls(svc, e) ==
    SetHandshakeCalls(svc, e) \o (IF e # "nil" THEN Call("onError", e) ELSE <<>>)

\* the caller of executeHandshake after it returned e: processSocket for
\* LOGIN (no report), startParser for JOIN (one more report)
HandshakeCallerCalls(svc, e) ==
    IF e # "nil" /\ svc = svc_JOINCH THEN Call("onError", e) ELSE <<>>

\* the error of executeHandshake is not tested
AfterHandshakeGoesOn(e) == "parse"

\* the test of the error is inverted
AfterHandshakeInverted(e) == IF e = "nil" THEN "return" ELSE "parse"

\* where the caller of executeHandshake goes with its result e: processSocket
\* and startParser return the error, else the loop of startParser runs
AfterHandshake(e) == IF e # "nil" THEN "return" ELSE "parse"

\* the write always takes the first slot
SentFrameFirst(svc) == handshake[1]

\* the frame setHandshake hands to socket.WriteMessage: c.handshake[svc-1]
SentFrame(svc) == handshake[HandshakeSlot(svc)]

\* executeHandshake(svc) up to the call of socket.WriteMessage
HandshakeBegin ==
    /\ MainReady
    /\ mainPc = "handshake"
    /\ handshake' = [handshake EXCEPT ![HandshakeSlot(hsSvc)] = BuildHandshake(hsSvc)]
    /\ built' = Append(built, [svc |-> hsSvc, frame |-> BuildHandshake(hsSvc)])
    /\ writing' = writing \cup {"main"}
    /\ mainPc' = "handshakeWrite"
    /\ UNCHANGED <<clientVars, channelPassword, dirVars, socket, queue, hsSvc,
                   curFrame, pend, executing, retVars, steps, readerVars,
                   dequeued, pingVars, ticker, sendVars, wire, events, crashed>>

\* socket.WriteMessage returns; the rest of setHandshake, of executeHandshake
\* and of the caller's error test
HandshakeWriteEnd ==
    /\ ~crashed
    /\ mainPc = "handshakeWrite"
    /\ writing' = writing \ {"main"}
    /\ steps' = Append(steps, [step |-> "send", result |-> hsSvc])
    /\ \E e \in WriteOutcomes :
          /\ wire' = Append(wire, [by |-> "main",
                                   data |-> SentFrame(hsSvc),
                                   e |-> e])
          /\ pend' = ExecuteHandshakeCalls(hsSvc, e) \o HandshakeCallerCalls(hsSvc, e)
          /\ err' = e
          /\ mainPc' = AfterHandshake(e)
    /\ UNCHANGED <<clientVars, channelPassword, dirVars, socket, cacheVars,
                   queue, hsSvc, curFrame, executing, ret, readerVars, dequeued,
                   pingVars, ticker, sendVars, events, crashed>>

\* ------------------------------------------------------------ dispatcher
\* getServiceCode: the code of the header, or an error
getServiceCode(f) ==
    IF f.hdr THEN [svc |-> f.svc, err |-> "nil"]
    ELSE [svc |-> svc_NONE, err |-> "service code error"]

\* the parsers of the bodies: parseChatMessage, parseBalloon, ...
ParseErr(f) == IF f.body THEN "nil" ELSE "parse error"

\* `for msg := range c.read`: the message the dispatcher receives
Receive(q) == Head(q)

\* the channel after the receive
AfterReceive(q) == Tail(q)

\* a wrong case label: the chat code also starts the JOIN handshake
TriggersJoinOnChat(svc) == svc \in {svc_LOGIN, svc_CHATMESG}

\* the service code that makes startParser run executeHandshake(svc_JOINCH)
TriggersJoin(svc) == svc = svc_LOGIN

\* the test of the "error: " prefix is missing
ParserCallsNoPrefix(m) ==
    CallFor("onRawMessage", "raw", m.id)
    \o (IF getServiceCode(m.f).err # "nil"
        THEN CallFor("onError", getServiceCode(m.f).err, m.id) ELSE <<>>)

\* startParser before its switch: the report of a read error, the raw
\* message, the report of an undecodable header
ParserCalls(m) ==
    (IF m.f.errp THEN CallFor("onError", "read error", m.id) ELSE <<>>)
    \o CallFor("onRawMessage", "raw", m.id)
    \o (IF getServiceCode(m.f).err # "nil"
        THEN CallFor("onError", getServiceCode(m.f).err, m.id) ELSE <<>>)

\* the else is missing: the event is delivered after the error too
ParsedCaseNoElse(obs, m) ==
    IF obs \in reg
    THEN (IF ParseErr(m.f) # "nil"
          THEN CallFor("onError", ParseErr(m.f), m.id) ELSE <<>>)
         \o CallFor(obs, "event", m.id)
    ELSE <<>>

\* a case of the switch that parses the body and reports the event or the error
ParsedCase(obs, m) ==
    IF obs \in reg
    THEN IF ParseErr(m.f) # "nil"
         THEN CallFor("onError", ParseErr(m.f), m.id)
         ELSE CallFor(obs, "event", m.id)
    ELSE <<>>

\* the switch of startParser, but for the LOGIN case
DispatchCalls(m) ==
    LET svc == getServiceCode(m.f).svc IN
    CASE svc = svc_JOINCH ->
            CallFor("onJoinChannel", IF m.f.body THEN "true" ELSE "false", m.id)
      [] svc = svc_CHUSER -> CallFor("onUserLists", "event", m.id)
      [] svc = svc_CHATMESG -> ParsedCase("onChatMessage", m)
      [] svc = svc_SENDBALLOON -> ParsedCase("onBalloon", m)
      [] svc = svc_ADCON_EFFECT -> ParsedCase("onAdballoon", m)
      [] svc \in {svc_FOLLOW_ITEM, svc_FOLLOW_ITEM_EFFECT} ->
            ParsedCase("onSubscription", m)
      [] svc = svc_SENDADMINNOTICE -> ParsedCase("onAdminNotice", m)
      [] svc = svc_MISSION -> ParsedCase("onMission", m)
      [] OTHER -> <<>>

\* one turn of the loop of startParser, up to the call of executeHandshake
ParserDequeue ==
    /\ MainReady
    /\ mainPc = "parse"
    /\ queue # <<>>
    /\ LET m == Receive(queue) IN
          /\ queue' = AfterReceive(queue)
          /\ curFrame' = m.id
          /\ dequeued' = Append(dequeued, m.id)
          /\ IF TriggersJoin(getServiceCode(m.f).svc)
             THEN /\ pend' = ParserCalls(m)
                  /\ hsSvc' = svc_JOINCH
                  /\ mainPc' = "handshake"
                  /\ steps' = Append(steps, [step |-> "recv",
                                              result |-> getServiceCode(m.f).svc])
             ELSE /\ pend' = ParserCalls(m) \o DispatchCalls(m)
                  /\ UNCHANGED <<hsSvc, mainPc, steps>>
    /\ UNCHANGED <<clientVars, channelPassword, dirVars, socket, cacheVars,
                   executing, retVars, readerVars, pingVars, ticker, sendVars,
                   writing, wire, events, crashed>>

\* Connect returns err; inside processSocket the deferred calls run first:
\* pingpongTimer.Stop(), then socket.Close()
ConnectReturn ==
    /\ MainReady
    /\ mainPc = "return"
    /\ ret' = err
    /\ mainPc' = "done"
    /\ IF ticker # "none"
       THEN /\ ticker' = "stopped"
            /\ socket' = "closed"
       ELSE UNCHANGED <<ticker, socket>>
    /\ UNCHANGED <<clientVars, channelPassword, dirVars, cacheVars, queue, hsSvc,
                   curFrame, pend, executing, err, steps, readerVars, dequeued,
                   pingVars, sendVars, writing, wire, events, crashed>>

\* ---------------------------------------------------------------- reader
\* what socket.ReadMessage can answer, as the message the reader forwards:
\* a frame of the server, or the text of the error
ReadResults == IF socket = "open" THEN ServerFrames \cup {ErrorFrame} ELSE {ErrorFrame}

\* a stack instead of a queue: the newest message is received first
EnqueueAtHead(q, m) == <<m>> \o q

\* `c.read <- msg` on a channel with room
Enqueue(q, m) == Append(q, m)

\* an unbounded channel: a send never blocks
HasRoomAlways(q) == TRUE

\* the channel has room for a send
HasRoom(q) == Len(q) < QueueCap

\* socket.ReadMessage returns: at most MaxReads times while the socket is
\* open, at once and with an error every time after the close
ReaderRead ==
    /\ ~crashed
    /\ readerPc = "read"
    /\ Len(produced) < MaxReads \/ socket = "closed"
    /\ \E f \in ReadResults :
          /\ inHand' = [id |-> Len(produced) + 1, f |-> f]
          /\ produced' = Append(produced, f)
    /\ readerPc' = "send"
    /\ UNCHANGED <<clientVars, channelPassword, dirVars, socket, cacheVars,
                   queue, mainPc, hsSvc, curFrame, pend, executing, retVars,
                   steps, dequeued, pingVars, ticker, sendVars, writing, wire,
                   events, crashed>>

\* the send on c.read goes through; the reader loops
ReaderEnqueue ==
    /\ ~crashed
    /\ readerPc = "send"
    /\ HasRoom(queue)
    /\ queue' = Enqueue(queue, inHand)
    /\ inHand' = NoMsg
    /\ readerPc' = "read"
    /\ UNCHANGED <<clientVars, channelPassword, dirVars, socket, cacheVars,
                   mainPc, hsSvc, curFrame, pend, executing, retVars, steps,
                   produced, dequeued, pingVars, ticker, sendVars, writing,
                   wire, events, crashed>>

\* -------------------------------------------------------------- keepalive
\* the ticker puts a tick in its channel (a tick is dropped when one waits)
TimerTick ==
    /\ ~crashed
    /\ ticker = "running"
    /\ tickC = 0
    /\ ticks < MaxTicks
    /\ tickC' = 1
    /\ ticks' = ticks + 1
    /\ UNCHANGED <<clientVars, channelPassword, dirVars, socket, cacheVars,
                   queue, mainPc, hsSvc, curFrame, pend, executing, retVars,
                   steps, readerVars, dequeued, pingPc, ticker, sendVars,
                   writing, wire, events, crashed>>

\* the keepalive goroutine receives a tick and calls socket.WriteMessage
PingReceive ==
    /\ ~crashed
    /\ pingPc = "wait"
    /\ tickC = 1
    /\ tickC' = 0
    /\ pingPc' = "writing"
    /\ writing' = writing \cup {"ping"}
    /\ UNCHANGED <<clientVars, channelPassword, dirVars, socket, cacheVars,
                   queue, mainPc, hsSvc, curFrame, pend, executing, retVars,
                   steps, readerVars, dequeued, ticks, ticker, sendVars, wire,
                   events, crashed>>

\* the keepalive goroutine reports a failed write itself
PingCallsReported(e) == IF e # "nil" THEN CallFor("onError", e, 0) ELSE <<>>

\* the observer calls the keepalive goroutine makes for the result e of its
\* write: the result is dropped
PingCalls(e) == <<>>

\* socket.WriteMessage returns in the keepalive goroutine
PingWriteEnd ==
    /\ ~crashed
    /\ pingPc = "writing"
    /\ pingPc' = "wait"
    /\ writing' = writing \ {"ping"}
    /\ \E e \in WriteOutcomes :
          /\ wire' = Append(wire, [by |-> "ping",
                                   data |-> Encode(svc_KEEPALIVE, <<"\f">>),
                                   e |-> e])
          /\ events' = events \o PingCalls(e)
          /\ executing' = executing \cup
                {[thread |-> "ping", obs |-> PingCalls(e)[i].obs] :
                    i \in 1..Len(PingCalls(e))}
    /\ UNCHANGED <<clientVars, channelPassword, dirVars, socket, cacheVars,
                   queue, mainPc, hsSvc, curFrame, pend, retVars, steps,
                   readerVars, dequeued, tickC, ticks, ticker, sendVars,
                   crashed>>

\* ---------------------------------------------------------- SendChatMessage
\* the test of the ticket is missing
SendRefusedNever == FALSE

\* the test at the head of SendChatMessage
SendRefused == token.authTicket = ""

\* the application calls SendChatMessage: refused without a ticket, a nil
\* pointer panic without a socket, else the call of socket.WriteMessage
SendChatMessage ==
    /\ ~crashed
    /\ newErr = "nil"
    /\ sendPc = "idle"
    /\ sends < MaxSends
    /\ sends' = sends + 1
    /\ IF SendRefused
       THEN /\ sendRet' = Append(sendRet, "cannot non-member send message")
            /\ UNCHANGED <<sendPc, writing, crashed>>
       ELSE IF socket = "nil"
            THEN /\ crashed' = TRUE
                 /\ UNCHANGED <<sendPc, sendRet, writing>>
            ELSE /\ sendPc' = "writing"
                 /\ writing' = writing \cup {"user"}
                 /\ UNCHANGED <<sendRet, crashed>>
    /\ UNCHANGED <<clientVars, channelPassword, dirVars, socket, cacheVars,
                   queue, mainPc, hsSvc, curFrame, pend, executing, retVars,
                   steps, readerVars, dequeued, pingVars, ticker, wire, events>>

\* socket.WriteMessage returns in SendChatMessage, which returns its result
SendWriteEnd ==
    /\ ~crashed
    /\ sendPc = "writing"
    /\ sendPc' = "idle"
    /\ writing' = writing \ {"user"}
    /\ \E e \in WriteOutcomes :
          /\ wire' = Append(wire, [by |-> "user",
                                   data |-> Encode(svc_CHATMESG,
                                                   <<"\f", "message", "\f", "0", "\f">>),
                                   e |-> e])
          /\ sendRet' = Append(sendRet, e)
    /\ UNCHANGED <<clientVars, channelPassword, dirVars, socket, cacheVars,
                   queue, mainPc, hsSvc, curFrame, pend, executing, retVars,
                   steps, readerVars, dequeued, pingVars, ticker, sends, events,
                   crashed>>

\* ------------------------------------------------------------------ Next
\* a session: Connect with its reader, keepalive and dispatcher
SessionNext ==
    \/ NewClient
    \/ Connect
    \/ Login
    \/ SetSocketData
    \/ CreateWebsocket
    \/ ProcessSocketStart
    \/ HandshakeBegin
    \/ HandshakeWriteEnd
    \/ ParserDequeue
    \/ CallObserver
    \/ ObserverReturn
    \/ ConnectReturn
    \/ ReaderRead
    \/ ReaderEnqueue
    \/ TimerTick
    \/ PingReceive
    \/ PingWriteEnd

\* a session during which the application calls SendChatMessage
Next ==
    \/ SessionNext
    \/ SendChatMessage
    \/ SendWriteEnd

Spec == Init /\ [][Next]_vars

\* the sessions in which the application sends nothing
SessionSpec == Init /\ [][SessionNext]_vars

\* The keepalive goroutine and the reader run as long as the process does; a
\* callback and a write return; Connect goes on.  Nothing makes the server
\* send (ReaderRead on an open socket) or the ticker tick.
Fairness ==
    /\ WF_vars(NewClient \/ Connect \/ Login \/ SetSocketData \/ CreateWebsocket
               \/ ProcessSocketStart \/ HandshakeBegin \/ HandshakeWriteEnd
               \/ ParserDequeue \/ CallObserver \/ ConnectReturn)
    /\ WF_vars(ObserverReturn)
    /\ WF_vars(ReaderEnqueue)
    /\ WF_vars(ReaderRead /\ socket = "closed")
    /\ WF_vars(PingReceive \/ PingWriteEnd)

\* the sessions of SessionSpec under the scheduling of the Go runtime
FairSpec == SessionSpec /\ Fairness

\* ---------------------------------------------------------------- claims
\* the range of a sequence
Range(q) == {q[i] : i \in 1..Len(q)}

\* a frame that carries the LOGIN service code
IsLoginCoded(f) == f.hdr /\ f.svc = svc_LOGIN

\* the handshake writes of a service code that have returned
HandshakeWrites(svc) ==
    {i \in 1..Len(wire) : wire[i].by = "main" /\ wire[i].data.svc = svc}

\* the write of the JOIN frame has been called
JoinWriteCalled ==
    \/ mainPc = "handshakeWrite" /\ hsSvc = svc_JOINCH
    \/ HandshakeWrites(svc_JOINCH) # {}

\* C1: the JOIN frame is never written before the dispatcher has dequeued a
\* LOGIN-coded frame, nor before the LOGIN frame was written
C1_JoinAfterLogin ==
    JoinWriteCalled =>
        /\ \E k \in 1..Len(dequeued) : IsLoginCoded(produced[dequeued[k]])
        /\ HandshakeWrites(svc_LOGIN) # {}

\* a JOIN frame went out on the socket
C1_Witness == \E i \in HandshakeWrites(svc_JOINCH) : wire[i].e = "nil"

\* C2: the observer invocations caused by frames follow the order in which
\* the reader enqueued the frames
C2_ObserverOrder ==
    \A i, j \in 1..Len(events) :
        (i < j /\ events[i].frame > 0 /\ events[j].frame > 0)
            => events[i].frame <= events[j].frame

\* observers were invoked for two frames, the first of them a read error
C2_Witness ==
    \E i, j \in 1..Len(events) :
        /\ events[i].frame = 1 /\ events[j].frame = 2
        /\ produced[1] = ErrorFrame /\ produced[2] # ErrorFrame

\* C3: at most one observer callback is executing, and only on the thread
\* that runs Connect
C3_OneObserverThread ==
    /\ Cardinality(executing) <= 1
    /\ \A e \in executing : e.thread = "main"

\* a callback is executing while the reader holds a message and the
\* keepalive goroutine is inside its write
C3_Witness ==
    /\ executing # {}
    /\ readerPc = "send"
    /\ pingPc = "writing"

\* C4: no two writers are inside a socket write at the same time
C4_WritesExclusive == Cardinality(writing) <= 1

\* C5: the LOGIN frame is written at most once and the JOIN frame at most once
C5_HandshakeOnce ==
    /\ Cardinality(HandshakeWrites(svc_LOGIN)) <= 1
    /\ Cardinality(HandshakeWrites(svc_JOINCH)) <= 1

\* C6: without a ticket every SendChatMessage call has returned the error
\* and the application has written nothing on the socket
C6_SendNeedsTicket ==
    token.authTicket = "" =>
        /\ "user" \notin writing
        /\ \A i \in 1..Len(wire) : wire[i].by # "user"
        /\ Len(sendRet) = sends
        /\ \A i \in 1..Len(sendRet) : sendRet[i] # "nil"
        /\ ~crashed

\* a call without a ticket was made while the socket was open
C6_Witness ==
    /\ token.authTicket = ""
    /\ sends > 0
    /\ socket = "open"
    /\ mainPc = "parse"

\* the ids of the messages in the channel, oldest first
QueueIds == [i \in 1..Len(queue) |-> queue[i].id]

\* the ids of the messages between the socket and the observers: received
\* by the dispatcher, in the channel, in the hand of the blocked reader
Forwarded ==
    dequeued \o QueueIds \o (IF readerPc = "send" THEN <<inHand.id>> ELSE <<>>)

\* the channel is within its capacity, and every message the reader produced
\* is, once and in order, received, in the channel or in the reader's hand
C7_Conserved ==
    /\ Len(queue) <= QueueCap
    /\ Forwarded = [i \in 1..Len(produced) |-> i]
    /\ \A i \in 1..Len(queue) : queue[i].f = produced[queue[i].id]

\* a reader that holds a message for a full channel stays where it is
C7_Blocks ==
    (readerPc = "send" /\ Len(queue) >= QueueCap)
        => (readerPc' = "send" /\ inHand' = inHand /\ produced' = produced)

\* the dispatcher has stopped: Connect is returning or has returned
DispatcherStopped == mainPc \in {"return", "done"}

\* C7: the frame queue is bounded and lossless: never longer than its
\* capacity, the reader blocks while it is full, no message is dropped or
\* duplicated, and every message is received unless the dispatcher stops
\* (the messages after the first MaxReads are read from the closed socket,
\* when the dispatcher has stopped)
C7_BoundedLossless ==
    /\ []C7_Conserved
    /\ [][C7_Blocks]_vars
    /\ \A k \in 1..MaxReads :
          (Len(produced) >= k) ~> (Len(dequeued) >= k \/ DispatcherStopped)

\* the reader is blocked on the full channel while the dispatcher runs
C7_Witness ==
    /\ readerPc = "send"
    /\ Len(queue) = QueueCap
    /\ mainPc = "parse"

\* C8: once the socket is closed the reader and the keepalive goroutine
\* eventually terminate
C8_ActivitiesTerminate ==
    (socket = "closed") ~> (readerPc = "done" /\ pingPc = "done")

\* a token with a streamer id and no credentials
Anonymous == token.StreamerID # "" /\ ~token.creds

\* the connect-result observer received true
ConnectedTrue ==
    \E i \in 1..Len(events) :
        events[i].obs = "onConnect" /\ events[i].arg = "true"

\* the steps of the anonymous happy path up to the JOIN frame
HappyPath ==
    << [step |-> "directory", result |-> "RESULT=1"],
       [step |-> "dial", result |-> "nil"],
       [step |-> "send", result |-> svc_LOGIN],
       [step |-> "recv", result |-> svc_LOGIN],
       [step |-> "send", result |-> svc_JOINCH] >>

\* without credentials there is no identity login and no login-result
\* event, and the connect-result true comes after the steps of the happy
\* path, in their order
C9_Order ==
    Anonymous =>
        /\ \A i \in 1..Len(steps) : steps[i].step # "login"
        /\ \A i \in 1..Len(events) : events[i].obs # "onLogin"
        /\ ConnectedTrue =>
              /\ Len(steps) >= Len(HappyPath)
              /\ SubSeq(steps, 1, Len(HappyPath)) = HappyPath

\* a handshake write failed
HandshakeWriteFailed ==
    \E i \in 1..Len(wire) : wire[i].by = "main" /\ wire[i].e # "nil"

\* C9: anonymous happy path: no identity login, then directory lookup,
\* socket, LOGIN sent, LOGIN-coded frame dispatched, JOIN sent, and once the
\* server has answered with a LOGIN-coded frame the connect-result observer
\* eventually receives true, unless a handshake write fails
C9_AnonymousHappyPath ==
    /\ []C9_Order
    /\ (Anonymous /\ "onConnect" \in reg
          /\ \E i \in 1..Len(produced) : IsLoginCoded(produced[i]))
       ~> (ConnectedTrue \/ HandshakeWriteFailed)

\* the anonymous session is joined
C9_Witness ==
    /\ Anonymous
    /\ ConnectedTrue
    /\ ~HandshakeWriteFailed

\* the error of the bootstrap step that failed ("nil": none failed)
BootstrapError ==
    IF \E i \in 1..Len(steps) : steps[i].step = "login" /\ steps[i].result # "nil"
    THEN (CHOOSE x \in Range(steps) : x.step = "login").result
    ELSE IF \E i \in 1..Len(steps) :
                steps[i].step = "directory" /\ steps[i].result = "transport error"
    THEN "transport error"
    ELSE IF \E i \in 1..Len(steps) :
                steps[i].step = "directory" /\ steps[i].result = "RESULT=-6"
    THEN "login required"
    ELSE "nil"

C11_NewClientError ==
    /\ newErr # "none" => (newErr # "nil" <=> token.StreamerID = "")
    /\ (mainPc \in {"noclient", "connect"}) =>
          /\ newErr # "none"
          /\ steps = <<>> /\ wire = <<>> /\ events = <<>>
          /\ socket = "nil" /\ writing = {} /\ produced = <<>>
    /\ newErr \notin {"none", "nil"} => mainPc = "noclient"

\* NewClient refused a token without streamer id
C11_Witness ==
    /\ token.StreamerID = ""
    /\ newErr = "StreamerID is missing from token"

\* the builds of the handshake frame of a service code, as indexes of built
Builds(svc) == {i \in 1..Len(built) : built[i].svc = svc}

\* the frames written for the handshake, in order
MainWrites == SelectSeq(wire, LAMBDA w : w.by = "main")

\* a write on the socket has been called
WriteCalled == writing # {} \/ wire # <<>>

Invoked(obs, arg, k) ==
    \E i \in 1..Len(events) :
        events[i].obs = obs /\ events[i].arg = arg /\ events[i].frame = k

\* frame k was received by the dispatcher and carries the LOGIN code
LoginDispatched(k) ==
    IF k <= Len(dequeued) THEN IsLoginCoded(produced[k]) ELSE FALSE

\* the number of LOGIN-coded frames among the first k the reader produced
LoginRank(k) ==
    Cardinality({i \in 1..k : IF i <= Len(produced)
                              THEN IsLoginCoded(produced[i]) ELSE FALSE})

\* the result of the JOIN write made for the LOGIN-coded frame k ("none":
\* the write has not returned); the first handshake write is the LOGIN write
JoinResult(k) ==
    IF Len(MainWrites) >= LoginRank(k) + 1
    THEN MainWrites[LoginRank(k) + 1].e
    ELSE "none"

\* the state of the dispatcher for a LOGIN-coded frame k it has received
C13_JoinOutcome(k) ==
    /\ JoinResult(k) = "none" =>
          /\ k = Len(dequeued)
          /\ mainPc \in {"handshake", "handshakeWrite"} /\ hsSvc = svc_JOINCH
    /\ JoinResult(k) # "none" =>
          MainWrites[LoginRank(k) + 1].data.svc = svc_JOINCH
    /\ JoinResult(k) = "nil" =>
          /\ k = Len(dequeued) => mainPc = "parse"
          /\ (k < Len(dequeued) \/ pend = <<>>) => Invoked("onConnect", "true", k)
          /\ ~Invoked("onConnect", "false", k)
    /\ JoinResult(k) \notin {"none", "nil"} =>
          /\ k = Len(dequeued) /\ curFrame = k
          /\ mainPc \in {"return", "done"}
          /\ err = JoinResult(k)
          /\ mainPc = "done" => ret = JoinResult(k)
          /\ pend = <<>> =>
                /\ Invoked("onConnect", "false", k)
                /\ "onError" \in reg => Invoked("onError", JoinResult(k), k)
          /\ ~Invoked("onConnect", "true", k)
          /\ \A i \in 1..Len(events) : events[i].frame <= k

\* the JOIN handshake is under way: executeHandshake(svc_JOINCH) was called
\* and setHandshake has not returned
JoinUnderWay == mainPc \in {"handshake", "handshakeWrite"} /\ hsSvc = svc_JOINCH

\* C13: for a LOGIN-coded frame the dispatcher writes the JOIN frame; after
\* a successful write the connect-result observer has received true and the
\* next frame is dispatched; after a failed write the connect-result
\* observer has received false, the error observer (when registered) the
\* error, no later frame is dispatched and Connect returns that error.
\* The JOIN write returns, and then the dispatcher is back in its loop or
\* Connect returns; the dispatcher does not stay in its loop with produced
\* frames left undispatched
C13_JoinOnLoginFrame ==
    /\ [](\A k \in 1..Len(dequeued) : LoginDispatched(k) => C13_JoinOutcome(k))
    /\ JoinUnderWay ~> (mainPc \in {"parse", "done"})
    /\ []<>(mainPc = "parse" => Len(dequeued) = Len(produced))

\* one JOIN write succeeded and the next frame was dispatched; the JOIN
\* write for a later LOGIN-coded frame failed and Connect returned its error
C13_Witness ==
    /\ Len(dequeued) = 3
    /\ LoginDispatched(1) /\ JoinResult(1) = "nil"
    /\ LoginDispatched(3) /\ JoinResult(3) = "write error"
    /\ Invoked("onConnect", "true", 1)
    /\ Invoked("onConnect", "false", 3)
    /\ ret = "write error"

\* the result of the LOGIN write ("none": it has not returned)
LoginResult == IF Len(MainWrites) >= 1 THEN MainWrites[1].e ELSE "none"

\* C14: after a failed LOGIN write the error observer (when registered) is
\* told, Connect returns that error, the dispatcher has received no frame and
\* no observer was invoked for a frame, and no JOIN frame is built or written
C14_LoginWriteFailure ==
    LoginResult \notin {"none", "nil"} =>
        /\ MainWrites[1].data.svc = svc_LOGIN
        /\ Len(MainWrites) = 1
        /\ ~JoinWriteCalled /\ Builds(svc_JOINCH) = {}
        /\ dequeued = <<>> /\ curFrame = 0
        /\ \A i \in 1..Len(events) : events[i].frame = 0
        /\ mainPc \in {"return", "done"}
        /\ err = LoginResult
        /\ mainPc = "done" => ret = LoginResult
        /\ (pend = <<>> /\ "onError" \in reg) => Invoked("onError", LoginResult, 0)

\* the LOGIN write failed with a frame waiting in the channel; the error
\* observer was told and Connect has returned
C14_Witness ==
    /\ LoginResult = "write error"
    /\ queue # <<>>
    /\ Invoked("onError", "write error", 0)
    /\ ret = "write error"

\* frame k is the message of a failed read and the dispatcher received it
ReadErrorDispatched(k) ==
    IF k <= Len(dequeued) THEN produced[k].errp ELSE FALSE

\* a failed read leaves one error message and a running reader; the
\* dispatcher reports it and is still in its loop; when the dispatcher has
\* stopped, the last frame it received is not the message of a failed read
C15_ReadErrorHandled ==
    /\ produced # <<>> => readerPc \in {"read", "send"}
    /\ \A k \in 1..Len(dequeued) : ReadErrorDispatched(k) =>
          /\ produced[k] = ErrorFrame
          /\ k = Len(dequeued) => mainPc = "parse"
          /\ ((k < Len(dequeued) \/ pend = <<>>) /\ "onError" \in reg)
                => Invoked("onError", "read error", k)
    /\ (DispatcherStopped /\ dequeued # <<>>) => LoginDispatched(Len(dequeued))

Invocations(obs, k) ==
    Cardinality({i \in 1..Len(events) : events[i].obs = obs /\ events[i].frame = k})

\* frame k carries the chat code and a body parseChatMessage rejects, and
\* the dispatcher has made every call it makes for it
BadChatHandled(k) ==
    /\ k <= Len(dequeued)
    /\ produced[k] = Frame(svc_CHATMESG, FALSE)
    /\ k < Len(dequeued) \/ pend = <<>>

\* C16 as stated: for a dispatched chat frame with a bad body a registered
\* error observer is invoked exactly once and the chat-message observer not
\* at all, whether or not the chat-message observer is registered
C16_BadChatOneError ==
    \A k \in 1..Len(dequeued) : (BadChatHandled(k) /\ "onError" \in reg) =>
        /\ Invocations("onError", k) = 1
        /\ Invocations("onChatMessage", k) = 0

\* C16 amended: the body of a chat frame is parsed only when the
\* chat-message observer is registered: then a bad body makes one call of the
\* error observer (when registered); without a chat-message observer there is
\* none; the chat-message observer is never invoked for the frame and the
\* dispatcher stays in its loop
C16_BadChatOneErrorIfObserved ==
    \A k \in 1..Len(dequeued) : produced[k] = Frame(svc_CHATMESG, FALSE) =>
        /\ Invocations("onChatMessage", k) = 0
        /\ Invocations("onError", k) <= 1
        /\ BadChatHandled(k) =>
              Invocations("onError", k) =
                  (IF {"onError", "onChatMessage"} \subseteq reg THEN 1 ELSE 0)
        /\ \A i \in 1..Len(events) :
              events[i].frame = k => events[i].obs \in {"onRawMessage", "onError"}
        /\ k = Len(dequeued) => mainPc = "parse"

\* the error observer was told of the bad chat body and the next frame, a
\* good chat message, was delivered
C16_Witness ==
    /\ BadChatHandled(1)
    /\ Invoked("onError", "parse error", 1)
    /\ Invoked("onChatMessage", "event", 2)

\* the keepalive writes that failed, as indexes of wire
FailedKeepalives == {i \in 1..Len(wire) : wire[i].by = "ping" /\ wire[i].e # "nil"}

\* C17: when a keepalive write has failed, a registered error observer has
\* been invoked with that failure
C17_KeepaliveFailureReported ==
    (FailedKeepalives # {} /\ "onError" \in reg) =>
        \A i \in FailedKeepalives :
            \E j \in 1..Len(events) :
                events[j].obs = "onError" /\ events[j].arg = wire[i].e

\* Connect is returning or has returned
Returning == mainPc \in {"return", "done"}

ErrorReports(e) ==
    {i \in 1..Len(events) : events[i].obs = "onError" /\ events[i].arg = e}

\* C19: a failed handshake write makes a registered error observer be
\* invoked with that error once: never more, and once when the main thread
\* has made its calls
C19_OneErrorPerFailedWrite ==
    (HandshakeWriteFailed /\ "onError" \in reg) =>
        LET e == MainWrites[Len(MainWrites)].e IN
        /\ Cardinality(ErrorReports(e)) <= 1
        /\ pend = <<>> => Cardinality(ErrorReports(e)) = 1

\* C20: the connect-result observer is invoked only for the outcome of a
\* JOIN write, made for a LOGIN-coded frame the dispatcher received; after a
\* failed LOGIN write it has not been invoked at all
C20_ConnectResultOnlyForJoin ==
    /\ \A i \in 1..Len(events) : events[i].obs = "onConnect" =>
          IF events[i].frame > 0
          THEN /\ LoginDispatched(events[i].frame)
               /\ JoinResult(events[i].frame) # "none"
          ELSE FALSE
    /\ LoginResult \notin {"none", "nil"} =>
          \A i \in 1..Len(events) : events[i].obs # "onConnect"

====
